---- MODULE Spec2Model ----
(***************************************************************************)
(* Break segmentation (pausenkoordinaten.py) and facility assignment       *)
(* (pausenzuordnung.py) of the truck charging-demand pipeline.             *)
(*                                                                         *)
(* Facility assignment is modelled on a line: a facility is the coordinate *)
(* of its centre, its catchment is the open interval of BUFFER_RADIUS      *)
(* around it (shapely's contains is true for interior points only), and    *)
(* the distance of a point to a catchment is 0 inside and on the boundary. *)
(* Coordinates are in units of 20 km, so BUFFER_RADIUS (40000 m) is 2.     *)
(* Sequences are 1-based: facility k of the model is row k-1 of the code.  *)
(*                                                                         *)
(* Segmentation keeps the kilometres of the code: threshold 360, jitter    *)
(* from randint(-50, 50). The paths and the trip lists are read lazily: a  *)
(* step takes the next edge of the path, or the next trip of the list.     *)
(*                                                                         *)
(* Specifications:                                                         *)
(*   SpecAssign   one call of assign_breaks_to_points                      *)
(*   Spec         main of pausenkoordinaten, paths up to MaxPath, trips    *)
(*                followed up to the first that appends a row              *)
(*   SpecRun      main of pausenkoordinaten, every trip followed, paths    *)
(*                up to RunMaxPath over RunEdges                           *)
(*   SpecTwoRuns  SpecRun executed twice on the same input, in lockstep    *)
(*   SpecParse    main of pausenkoordinaten on paths decoded from strings  *)
(*                of up to MaxStr characters by parse_edge_string          *)
(*   SpecStream   SpecRun with the draws taken from the one generator of   *)
(*                np.random, a sequence of period StreamLen                *)
(*   SpecMain     main of pausenzuordnung: the short pass, then the long   *)
(*                pass, over a file of up to MaxMainEvents rows            *)
(***************************************************************************)
EXTENDS Integers, Sequences, FiniteSets, TLC

\* ------------------------------------------------------------------ bounds
MaxFac    == 2   \* at most this many facilities (rows of gdf_ausschreibung)
MaxEvents == 3   \* at most this many break rows in one assignment pass
GridMax   == 3   \* coordinates are 0..GridMax
MaxPath   == 5   \* at most this many edges in the path of a trip
MaxTrips  == 1   \* at most this many trips in each of the two trip lists
RunMaxPath == 2  \* path bound where every trip of a run is followed

\* ------------------------------------------------------- program constants
BUFFER_RADIUS == 2

DISTANCE_THRESHOLD == 360

\* np.random.randint(JitterLow, JitterHigh): JitterLow <= value < JitterHigh
JitterLow  == -50
JitterHigh == 50

VARIABLES
    \* ---- pausenzuordnung.assign_breaks_to_points
    ausschreibung,    \* centres of the facilities, in row order
    results_breaks,   \* accumulated Break_Number per facility
    idx,              \* number of rows of gdf_breaks_in_germany iterated
    row,              \* the row of the last iteration: point_geom, break_count
    prev_results,     \* results_breaks before the last iteration
    sum_breaks_in,    \* sum of Break_Number over the rows iterated
    branches_used,    \* the branches the iterations so far went through
    apc,              \* "loop", "returned" (the Series) or "error" (exception)
    \* ---- pausenkoordinaten.main
    phase,            \* "single" (loop 6a), "double" (loop 6b), "done", "error"
    index,            \* index of the trip in its list (-1: none taken yet)
    in_trip,          \* inside the loop over the edges of trip index
    distance_origin_road,  \* list_distance_origin_road[index]
    trip_traffic,     \* list_trip_traffic[index]
    edges_list,       \* the edges of the trip iterated so far
    travel_distance,
    breaks,
    breaks_reset,
    jitter,           \* what np.random.randint returned at the last check
    jitter_zero,      \* every draw of this trip so far returned 0
    dict_break,       \* the rows appended so far
    df_breaks,        \* the sorted frame that is exported
    rerun,            \* a second execution of main on the same input
    edge_str,         \* Edge_path_E_road of the trip, one character each
    list_trip_edges,             \* parsed paths of the single-driver trips
    list_trip_edges_two_driver,  \* parsed paths of the two-driver trips
    random_state,     \* the values the generator of np.random returns, in turn
    rng_pos,          \* number of values np.random has returned so far
    \* ---- pausenzuordnung.main
    df_breaks_loaded, \* the rows of the breaks file, Break_Type included
    break_pass,       \* "short" (5a), "long" (5b) or "done"
    short_breaks_series,  \* the Series returned by pass 5a
    long_breaks_series    \* the Series returned by pass 5b

avars == <<ausschreibung, results_breaks, idx, row, prev_results,
           sum_breaks_in, branches_used, apc>>

svars == <<phase, index, in_trip, distance_origin_road, trip_traffic,
           edges_list, travel_distance, breaks, breaks_reset, jitter,
           jitter_zero, dict_break, df_breaks, rerun>>

\* the decoded paths and the generator of pausenkoordinaten
pvars == <<edge_str, list_trip_edges, list_trip_edges_two_driver,
           random_state, rng_pos>>

\* main of pausenzuordnung around the two passes
mvars == <<df_breaks_loaded, break_pass, short_breaks_series,
           long_breaks_series>>

vars == <<avars, svars, pvars, mvars>>

Points == 0..GridMax

\* Break_Number of a row: the truck flow of its trip, always positive
BreakNumbers == {1, 2, 5}

Abs(x) == IF x < 0 THEN -x ELSE x

NoRow == [point |-> 0, break_count |-> 0]

\* ------------------------------------------------------------ geometry
\* polygons_kreis.contains(point_geom), one circle
Contains(centre, point) == Abs(point - centre) < BUFFER_RADIUS

\* polygons_kreis.distance(point_geom), one circle
Distance(centre, point) ==
    IF Abs(point - centre) <= BUFFER_RADIUS THEN 0
    ELSE Abs(point - centre) - BUFFER_RADIUS

\* np.where(contained)[0]: the indices of the containing circles, ascending
RECURSIVE WhereFrom(_, _, _)
WhereFrom(centres, point, k) ==
    IF k > Len(centres) THEN <<>>
    ELSE IF Contains(centres[k], point)
         THEN <<k>> \o WhereFrom(centres, point, k + 1)
         ELSE WhereFrom(centres, point, k + 1)

ContainedIndices(centres, point) == WhereFrom(centres, point, 1)

\* idxmin taking the last index holding the minimum instead of the first
IdxMinLast(centres, point) ==
    CHOOSE k \in 1..Len(centres) :
        /\ \A m \in 1..Len(centres) :
              Distance(centres[k], point) <= Distance(centres[m], point)
        /\ \A m \in (k + 1)..Len(centres) :
              Distance(centres[m], point) > Distance(centres[k], point)

\* distances.idxmin(): the first index holding the minimum
IdxMin(centres, point) ==
    CHOOSE k \in 1..Len(centres) :
        /\ \A m \in 1..Len(centres) :
              Distance(centres[k], point) <= Distance(centres[m], point)
        /\ \A m \in 1..(k - 1) :
              Distance(centres[m], point) > Distance(centres[k], point)

\* the loop over contained_indices: min_ratio_value starts at infinity,
\* a circle replaces the selection only when strictly smaller
RECURSIVE SelectLoop(_, _, _, _)
SelectLoop(results, indices, min_ratio_value, selected_kreis) ==
    IF indices = <<>> THEN selected_kreis
    ELSE LET kreis_idx     == Head(indices)
             current_ratio == results[kreis_idx]
         IN  IF min_ratio_value.inf \/ current_ratio < min_ratio_value.v
             THEN SelectLoop(results, Tail(indices),
                             [inf |-> FALSE, v |-> current_ratio], kreis_idx)
             ELSE SelectLoop(results, Tail(indices),
                             min_ratio_value, selected_kreis)

\* the selection loop comparing with <= : the last smallest circle wins
SelectedKreisLastMin(results, indices) ==
    LET S == {indices[i] : i \in 1..Len(indices)}
    IN  CHOOSE k \in S :
            /\ \A m \in S : results[k] <= results[m]
            /\ \A m \in S : m > k => results[m] > results[k]

SelectedKreis(results, indices) ==
    SelectLoop(results, indices, [inf |-> TRUE, v |-> 0], 0)

\* the index that receives break_count, by the three branches
NearestBranch(centres, point) == IdxMin(centres, point)

\* the single branch crediting the first row instead of the containing one
SingleBranchFirstRow(indices) == 1

SingleBranch(indices) == indices[1]

MultiBranch(results, indices) == SelectedKreis(results, indices)

\* which of the three branches an iteration takes
Branch(centres, point) ==
    LET contained_indices == ContainedIndices(centres, point)
    IN  IF Len(contained_indices) = 0 THEN "nearest"
        ELSE IF Len(contained_indices) = 1 THEN "single"
        ELSE "multiple"

Target(centres, results, point) ==
    LET contained_indices == ContainedIndices(centres, point)
    IN  IF Len(contained_indices) = 0 THEN NearestBranch(centres, point)
        ELSE IF Len(contained_indices) = 1 THEN SingleBranch(contained_indices)
        ELSE MultiBranch(results, contained_indices)

\* = instead of += : the count overwrites what the facility held
AddBreaksOverwrite(results, k, break_count) ==
    [results EXCEPT ![k] = break_count]

\* results_breaks[k] += break_count
AddBreaks(results, k, break_count) ==
    [results EXCEPT ![k] = results[k] + break_count]

\* ------------------------------------------------------------ assignment
\* the list started with a 1 for every facility
OneResults(centres) == [k \in 1..Len(centres) |-> 1]

\* results_breaks = [0]*len(gdf_ausschreibung)
ZeroResults(centres) == [k \in 1..Len(centres) |-> 0]

FacilityLists == UNION {[1..n -> Points] : n \in 0..MaxFac}

\* the decoded paths and the generator where the paths and the draws are
\* chosen step by step
PathsIdle ==
    /\ edge_str = <<>>
    /\ list_trip_edges = <<>>
    /\ list_trip_edges_two_driver = <<>>
    /\ random_state = <<>>
    /\ rng_pos = 0

\* the variables of main of pausenzuordnung while one pass is looked at
MainIdle ==
    /\ df_breaks_loaded = <<>>
    /\ break_pass = "short"
    /\ short_breaks_series = <<>>
    /\ long_breaks_series = <<>>

\* the state of main of pausenkoordinaten before its loops
SegmentStart ==
    /\ phase = "single"
    /\ index = -1
    /\ in_trip = FALSE
    /\ distance_origin_road = 0
    /\ trip_traffic = 0
    /\ edges_list = <<>>
    /\ travel_distance = 0
    /\ breaks = 0
    /\ breaks_reset = 0
    /\ jitter = 0
    /\ jitter_zero = TRUE
    /\ dict_break = <<>>
    /\ df_breaks = <<>>
    /\ rerun = [travel_distance |-> 0, breaks |-> 0, breaks_reset |-> 0,
                dict_break |-> <<>>, df_breaks |-> <<>>]

InitAssign ==
    /\ SegmentStart
    /\ PathsIdle
    /\ MainIdle
    /\ ausschreibung \in FacilityLists
    /\ results_breaks = ZeroResults(ausschreibung)
    /\ idx = 0
    /\ row = NoRow
    /\ prev_results = ZeroResults(ausschreibung)
    /\ sum_breaks_in = 0
    /\ branches_used = {}
    /\ apc = "loop"

\* the body of the loop over gdf_breaks_in_germany.iterrows() for one row
IterateRow(point, break_count) ==
    /\ row' = [point |-> point, break_count |-> break_count]
    /\ idx' = idx + 1
    /\ sum_breaks_in' = sum_breaks_in + break_count
    /\ prev_results' = results_breaks
    /\ branches_used' = branches_used \cup {Branch(ausschreibung, point)}
    /\ IF Len(ausschreibung) = 0
       THEN \* distances is empty: idxmin raises
            /\ apc' = "error"
            /\ UNCHANGED results_breaks
       ELSE /\ results_breaks' =
                   AddBreaks(results_breaks,
                             Target(ausschreibung, results_breaks, point),
                             break_count)
            /\ UNCHANGED apc
    /\ UNCHANGED <<ausschreibung, svars, pvars>>

\* one iteration of the loop over gdf_breaks_in_germany.iterrows()
AssignRow ==
    /\ apc = "loop"
    /\ idx < MaxEvents
    /\ \E point \in Points, break_count \in BreakNumbers :
        IterateRow(point, break_count)
    /\ UNCHANGED mvars

\* the loop is exhausted: return pd.Series(results_breaks, ...)
ReturnSeries ==
    /\ apc = "loop"
    /\ apc' = "returned"
    /\ UNCHANGED <<ausschreibung, results_breaks, idx, row, prev_results,
                   sum_breaks_in, branches_used, svars, pvars, mvars>>

NextAssign == AssignRow \/ ReturnSeries

SpecAssign == InitAssign /\ [][NextAssign]_vars

\* ------------------------------------------ main of pausenzuordnung
MaxMainEvents == 2   \* at most this many rows in the breaks file

MainPoints == {0, 1, 2}
MainBreakNumbers == {1, 2}
BreakTypes == {"short", "long"}

MainFacilityLists == UNION {[1..n -> MainPoints] : n \in 0..MaxFac}

LoadedRows ==
    [point : MainPoints, break_count : MainBreakNumbers,
     Break_Type : BreakTypes]

LoadedFrames == UNION {[1..n -> LoadedRows] : n \in 0..MaxMainEvents}

\* no selection: every row of the file
FilterTypeAll(rows, type) == rows

\* df_breaks[df_breaks['Break_Type'] == type], rows in file order
RECURSIVE FilterType(_, _)
FilterType(rows, type) ==
    IF rows = <<>> THEN <<>>
    ELSE IF Head(rows).Break_Type = type
         THEN <<Head(rows)>> \o FilterType(Tail(rows), type)
         ELSE FilterType(Tail(rows), type)

\* gdf_short_breaks_germany or gdf_long_breaks_germany: the frame of the
\* running pass (every point of the file lies in Germany)
PassRows == FilterType(df_breaks_loaded, break_pass)

\* gdf_ausschreibung['Sum'] = short_breaks_series + long_breaks_series
SumColumn ==
    [k \in DOMAIN short_breaks_series |->
        short_breaks_series[k] + long_breaks_series[k]]

InitMain ==
    /\ SegmentStart
    /\ PathsIdle
    /\ ausschreibung \in MainFacilityLists
    /\ df_breaks_loaded \in LoadedFrames
    /\ break_pass = "short"
    /\ short_breaks_series = <<>>
    /\ long_breaks_series = <<>>
    /\ results_breaks = ZeroResults(ausschreibung)
    /\ idx = 0
    /\ row = NoRow
    /\ prev_results = ZeroResults(ausschreibung)
    /\ sum_breaks_in = 0
    /\ branches_used = {}
    /\ apc = "loop"

\* one iteration of the loop of the running pass
PassRow ==
    /\ apc = "loop"
    /\ break_pass \in BreakTypes
    /\ idx < Len(PassRows)
    /\ IterateRow(PassRows[idx + 1].point, PassRows[idx + 1].break_count)
    /\ UNCHANGED mvars

\* pass 5a returns its Series and pass 5b is called: a new results_breaks
ShortPassReturn ==
    /\ apc = "loop"
    /\ break_pass = "short"
    /\ idx = Len(PassRows)
    /\ short_breaks_series' = results_breaks
    /\ break_pass' = "long"
    /\ results_breaks' = ZeroResults(ausschreibung)
    /\ idx' = 0
    /\ row' = NoRow
    /\ prev_results' = ZeroResults(ausschreibung)
    /\ sum_breaks_in' = 0
    /\ branches_used' = {}
    /\ UNCHANGED <<ausschreibung, apc, df_breaks_loaded, long_breaks_series,
                   svars, pvars>>

\* pass 5b returns its Series
LongPassReturn ==
    /\ apc = "loop"
    /\ break_pass = "long"
    /\ idx = Len(PassRows)
    /\ long_breaks_series' = results_breaks
    /\ break_pass' = "done"
    /\ apc' = "returned"
    /\ UNCHANGED <<ausschreibung, results_breaks, idx, row, prev_results,
                   sum_breaks_in, branches_used, df_breaks_loaded,
                   short_breaks_series, svars, pvars>>

NextMain == PassRow \/ ShortPassReturn \/ LongPassReturn

SpecMain == InitMain /\ [][NextMain]_vars

\* ------------------------------------------------------------ the network
\* dict_edge_length and dict_edge_node_b: edges 1 and 2 are 200 km long,
\* edge 3 is 450 km long; edge 4 is in no dictionary; edge 5 is 1500 km
\* long, several times the threshold
KnownEdges == {1, 2, 3}
UnknownEdge == 4
LongEdge == 5

dict_edge_length ==
    [e \in KnownEdges \cup {LongEdge} |->
        IF e = LongEdge THEN 1500 ELSE IF e = 3 THEN 450 ELSE 200]
dict_edge_node_b == [e \in KnownEdges \cup {LongEdge} |-> 10 + e]

\* Distance_from_origin_region_to_E_road and Traffic_flow_trucks_2030 of a trip
StartDistances == {0, 200}
TrafficFlows == {1, 2}

JitterValues == JitterLow..(JitterHigh - 1)

\* the upper end of the range at twice its value: randint(-50, 101)
JitterSamplesWide(t) == {JitterLow, 2 * JitterHigh, 0}

\* The draws followed at a check of accumulated distance t: the two ends
\* of the range, 0, and the two values around t - threshold where the
\* comparison flips. Every other value of the range compares like one of them.
JitterSamples(t) ==
    {JitterLow, JitterHigh - 1, 0,
     t - DISTANCE_THRESHOLD - 1, t - DISTANCE_THRESHOLD} \cap JitterValues

trip_distance == DISTANCE_THRESHOLD

\* ------------------------------------------------------------ segmentation
\* parity of the break counter reversed
BreakTypeSingleEven(b) == IF b % 2 = 0 THEN "short" ELSE "long"

\* 6a: break_type from the number of the break
BreakTypeSingle(b) == IF b % 2 = 1 THEN "short" ELSE "long"

\* the comment's rule: long after two short breaks
BreakTypeDoubleAfterTwo(br) == IF br <= 1 THEN "short" ELSE "long"

\* 6b: break_type from the run of short breaks
BreakTypeDouble(br) == IF br <= 2 THEN "short" ELSE "long"

\* 6b: breaks_reset after the break
NextBreaksReset(br) == IF BreakTypeDouble(br) = "short" THEN br + 1 ELSE 0

\* Break_Number written as 1 instead of the traffic flow of the trip
BreakRowUnit(driver, trip, b, type, edge_id, traffic) ==
    [Trip_ID      |-> trip,
     Driver       |-> driver,
     Break_Nr     |-> b,
     Break_Type   |-> type,
     Edge         |-> edge_id,
     Edge_length  |-> dict_edge_length[edge_id],
     Node_B       |-> dict_edge_node_b[edge_id],
     Break_Number |-> 1]

\* the row appended to dict_break (Latitude_B and Longitude_B are functions
\* of Node_B and left out)
BreakRow(driver, trip, b, type, edge_id, traffic) ==
    [Trip_ID      |-> trip,
     Driver       |-> driver,
     Break_Nr     |-> b,
     Break_Type   |-> type,
     Edge         |-> edge_id,
     Edge_length  |-> dict_edge_length[edge_id],
     Node_B       |-> dict_edge_node_b[edge_id],
     Break_Number |-> traffic]

\* the comparison with >= instead of >
ThresholdReachedNoStrict(t, j) == t >= trip_distance + j

\* if travel_distance > (trip_distance + np.random.randint(-50, 50))
ThresholdReached(t, j) == t > trip_distance + j

\* travel_distance = 0
AfterBreak(t) == 0

\* breaks += 1
NextBreaks(b) == b + 1

\* travel_distance += dict_edge_length[edge_id] (0 stands in for the
\* length of an edge that is in no dictionary: the lookup raises)
Checked(t, edge_id) ==
    t + (IF edge_id \in DOMAIN dict_edge_length
         THEN dict_edge_length[edge_id] ELSE 0)

\* the body of the loop over the edges for a known edge: r holds
\* travel_distance, breaks, breaks_reset and dict_break of an execution
EdgeStep(r, driver, trip, traffic, edge_id, j) ==
    LET t == Checked(r.travel_distance, edge_id)
    IN  IF ThresholdReached(t, j)
        THEN LET b    == NextBreaks(r.breaks)
                 type == IF driver = 1 THEN BreakTypeSingle(b)
                         ELSE BreakTypeDouble(r.breaks_reset)
             IN  [r EXCEPT
                    !.travel_distance = AfterBreak(t),
                    !.breaks          = b,
                    !.breaks_reset    = IF driver = 1 THEN r.breaks_reset
                                        ELSE NextBreaksReset(r.breaks_reset),
                    !.dict_break      = Append(r.dict_break,
                                               BreakRow(driver, trip, b, type,
                                                        edge_id, traffic))]
        ELSE [r EXCEPT !.travel_distance = t]

\* the counters kept from the previous trip
TripStartKeepCounters(r, origin) == [r EXCEPT !.travel_distance = origin]

\* the head of the loop over the trips: travel_distance, breaks, breaks_reset
TripStart(r, origin) ==
    [r EXCEPT !.travel_distance = origin, !.breaks = 0, !.breaks_reset = 0]

\* df_breaks.sort_values(by=['Trip_ID', 'Break_Nr']): rows with equal keys
\* keep their order
RowBefore(a, b) ==
    \/ a.Trip_ID < b.Trip_ID
    \/ a.Trip_ID = b.Trip_ID /\ a.Break_Nr < b.Break_Nr

RECURSIVE InsertRow(_, _)
InsertRow(sorted, r) ==
    IF sorted = <<>> THEN <<r>>
    ELSE IF RowBefore(r, sorted[Len(sorted)])
         THEN Append(InsertRow(SubSeq(sorted, 1, Len(sorted) - 1), r),
                     sorted[Len(sorted)])
         ELSE Append(sorted, r)

RECURSIVE SortValues(_)
SortValues(rows) ==
    IF rows = <<>> THEN <<>>
    ELSE InsertRow(SortValues(SubSeq(rows, 1, Len(rows) - 1)), rows[Len(rows)])

Driver == IF phase = "single" THEN 1 ELSE 2

Run == [travel_distance |-> travel_distance, breaks |-> breaks,
        breaks_reset |-> breaks_reset, dict_break |-> dict_break,
        df_breaks |-> df_breaks]

SetRun(r) ==
    /\ travel_distance' = r.travel_distance
    /\ breaks' = r.breaks
    /\ breaks_reset' = r.breaks_reset
    /\ dict_break' = r.dict_break
    /\ df_breaks' = r.df_breaks

\* the next trip of the list of the running loop
StartTrip(origins, traffics, both) ==
    /\ phase \in {"single", "double"}
    /\ ~in_trip
    /\ index + 1 < MaxTrips
    /\ \E origin \in origins, traffic \in traffics :
        /\ distance_origin_road' = origin
        /\ trip_traffic' = traffic
        /\ SetRun(TripStart(Run, origin))
        /\ rerun' = IF both THEN TripStart(rerun, origin) ELSE rerun
    /\ index' = index + 1
    /\ in_trip' = TRUE
    /\ edges_list' = <<>>
    /\ jitter' = 0
    /\ jitter_zero' = TRUE
    /\ UNCHANGED <<phase, avars, mvars>>

\* the next edge of the trip: one pass through the body of the inner loop
CheckEdge(edge_ids, max_path, both) ==
    /\ phase \in {"single", "double"}
    /\ in_trip
    /\ Len(edges_list) < max_path
    /\ \E edge_id \in edge_ids :
       \E j \in JitterSamples(Checked(travel_distance, edge_id)),
          j2 \in IF both
                 THEN JitterSamples(Checked(rerun.travel_distance, edge_id))
                 ELSE {0} :
        /\ edges_list' = Append(edges_list, edge_id)
        /\ IF edge_id \in DOMAIN dict_edge_length
           THEN /\ SetRun(EdgeStep(Run, Driver, index, trip_traffic, edge_id, j))
                /\ rerun' = IF both
                            THEN EdgeStep(rerun, Driver, index, trip_traffic,
                                          edge_id, j2)
                            ELSE rerun
                /\ jitter' = j
                /\ jitter_zero' = (jitter_zero /\ j = 0)
                /\ UNCHANGED <<phase, in_trip>>
           ELSE \* dict_edge_length[edge_id] raises KeyError: main ends
                /\ phase' = "error"
                /\ in_trip' = FALSE
                /\ UNCHANGED <<travel_distance, breaks, breaks_reset, jitter,
                               jitter_zero, dict_break, df_breaks, rerun>>
    /\ UNCHANGED <<index, distance_origin_road, trip_traffic, avars, mvars>>

\* the path of the trip is exhausted
EndTrip ==
    /\ phase \in {"single", "double"}
    /\ in_trip
    /\ in_trip' = FALSE
    /\ UNCHANGED <<phase, index, distance_origin_road, trip_traffic,
                   edges_list, travel_distance, breaks, breaks_reset, jitter,
                   jitter_zero, dict_break, df_breaks, rerun, avars, mvars>>

\* the list of single-driver trips is exhausted: loop 6b begins
EndSingleLoop ==
    /\ phase = "single"
    /\ ~in_trip
    /\ phase' = "double"
    /\ index' = -1
    /\ UNCHANGED <<in_trip, distance_origin_road, trip_traffic, edges_list,
                   travel_distance, breaks, breaks_reset, jitter, jitter_zero,
                   dict_break, df_breaks, rerun, avars, mvars>>

\* the list of two-driver trips is exhausted: sections 7 and 8
SortAndExport(both) ==
    /\ phase = "double"
    /\ ~in_trip
    /\ phase' = "done"
    /\ df_breaks' = SortValues(dict_break)
    /\ rerun' = IF both
                THEN [rerun EXCEPT !.df_breaks = SortValues(rerun.dict_break)]
                ELSE rerun
    /\ UNCHANGED <<index, in_trip, distance_origin_road, trip_traffic,
                   edges_list, travel_distance, breaks, breaks_reset, jitter,
                   jitter_zero, dict_break, avars, mvars>>

\* the assignment variables while main of pausenkoordinaten runs
AssignIdle ==
    /\ ausschreibung = <<>>
    /\ results_breaks = <<>>
    /\ idx = 0
    /\ row = NoRow
    /\ prev_results = <<>>
    /\ sum_breaks_in = 0
    /\ branches_used = {}
    /\ apc = "loop"

Init == SegmentStart /\ PathsIdle /\ AssignIdle /\ MainIdle

\* main of pausenkoordinaten; trips are followed into their paths up to the
\* first trip that appends a row
Next ==
    \/ (dict_break = <<>> /\ StartTrip(StartDistances, TrafficFlows, FALSE)
                           /\ UNCHANGED pvars)
    \/ (CheckEdge(KnownEdges \cup {UnknownEdge}, MaxPath, FALSE)
            /\ UNCHANGED pvars)
    \/ (EndTrip /\ UNCHANGED pvars)
    \/ (EndSingleLoop /\ UNCHANGED pvars)
    \/ (SortAndExport(FALSE) /\ UNCHANGED pvars)

Spec == Init /\ [][Next]_vars

\* the inputs where every trip of a run is followed
RunEdges == {1, 3, UnknownEdge}
RunStartDistances == {0}
RunTrafficFlows == {1}

\* main of pausenkoordinaten, every trip followed, on shorter paths
NextRun ==
    \/ (StartTrip(RunStartDistances, RunTrafficFlows, FALSE)
            /\ UNCHANGED pvars)
    \/ (CheckEdge(RunEdges, RunMaxPath, FALSE) /\ UNCHANGED pvars)
    \/ (EndTrip /\ UNCHANGED pvars)
    \/ (EndSingleLoop /\ UNCHANGED pvars)
    \/ (SortAndExport(FALSE) /\ UNCHANGED pvars)

SpecRun == Init /\ [][NextRun]_vars

\* main of pausenkoordinaten executed twice on the same trips and
\* dictionaries; numpy seeds its generator afresh in each execution, so the
\* draws of the two are independent
NextTwoRuns ==
    \/ (StartTrip(RunStartDistances, RunTrafficFlows, TRUE)
            /\ UNCHANGED pvars)
    \/ (CheckEdge(RunEdges, RunMaxPath, TRUE) /\ UNCHANGED pvars)
    \/ (EndTrip /\ UNCHANGED pvars)
    \/ (EndSingleLoop /\ UNCHANGED pvars)
    \/ (SortAndExport(TRUE) /\ UNCHANGED pvars)

SpecTwoRuns == Init /\ [][NextTwoRuns]_vars

\* ------------------------------------------------------ the edge paths
\* An Edge_path_E_road string is a sequence of its characters.
MaxStr == 3   \* at most this many characters in an edge-path string

PathChars == {"[", "]", ",", "1", "3", "5", "x"}
DigitValue ==
    [c \in {"1", "3", "5"} |-> IF c = "1" THEN 1 ELSE IF c = "3" THEN 3 ELSE 5]
EdgeStrings == UNION {[1..n -> PathChars] : n \in 0..MaxStr}

\* edge_str.strip('[]'): leading and trailing brackets are removed
RECURSIVE LStrip(_)
LStrip(str) ==
    IF str # <<>> /\ Head(str) \in {"[", "]"} THEN LStrip(Tail(str)) ELSE str

RECURSIVE RStrip(_)
RStrip(str) ==
    IF str # <<>> /\ str[Len(str)] \in {"[", "]"}
    THEN RStrip(SubSeq(str, 1, Len(str) - 1))
    ELSE str

Strip(str) == RStrip(LStrip(str))

\* .split(','): the pieces between the commas, empty pieces included
RECURSIVE Split(_)
Split(str) ==
    IF \A i \in 1..Len(str) : str[i] # ","
    THEN <<str>>
    ELSE LET i == CHOOSE k \in 1..Len(str) :
                      str[k] = "," /\ \A m \in 1..(k - 1) : str[m] # ","
         IN  <<SubSeq(str, 1, i - 1)>> \o Split(SubSeq(str, i + 1, Len(str)))

\* int(x) raises ValueError
IntRaises(x) == x = <<>> \/ \E i \in 1..Len(x) : x[i] \notin DOMAIN DigitValue

\* int(x)
RECURSIVE IntOf(_)
IntOf(x) ==
    IF x = <<>> THEN 0
    ELSE 10 * IntOf(SubSeq(x, 1, Len(x) - 1)) + DigitValue[x[Len(x)]]

\* the elements decoded before the first one that raises are kept
parse_edge_string_prefix(edge_str_in) ==
    LET elems == Split(Strip(edge_str_in))
        Decode[i \in 0..Len(elems)] ==
            IF i = 0 THEN <<>>
            ELSE IF Len(Decode[i - 1]) < i - 1 \/ IntRaises(elems[i])
                 THEN Decode[i - 1]
                 ELSE Append(Decode[i - 1], IntOf(elems[i]))
    IN  Decode[Len(elems)]

\* parse_edge_string: list(map(int, ...)), and [] on any exception
parse_edge_string(edge_str_in) ==
    LET elems == Split(Strip(edge_str_in))
    IN  IF \E i \in 1..Len(elems) : IntRaises(elems[i])
        THEN <<>>
        ELSE [i \in 1..Len(elems) |-> IntOf(elems[i])]

\* df_filtered['Edge_path_E_road'].apply(parse_edge_string) for the trip
\* that starts (the code decodes the column before the loops; decoding
\* is a pure function of the string)
ReadPath(str) ==
    /\ edge_str' = str
    /\ IF phase = "single"
       THEN /\ list_trip_edges' =
                   Append(list_trip_edges, parse_edge_string(str))
            /\ UNCHANGED list_trip_edges_two_driver
       ELSE /\ list_trip_edges_two_driver' =
                   Append(list_trip_edges_two_driver, parse_edge_string(str))
            /\ UNCHANGED list_trip_edges
    /\ UNCHANGED <<random_state, rng_pos>>

\* the string is looked at only while its trip is processed
ForgetString ==
    /\ edge_str' = <<>>
    /\ UNCHANGED <<list_trip_edges, list_trip_edges_two_driver,
                   random_state, rng_pos>>

\* edges_list = list_trip_edges[index]
CurrentPath ==
    IF phase = "single" THEN list_trip_edges[index + 1]
    ELSE list_trip_edges_two_driver[index + 1]

ParseStartDistances == {0, 500}
ParseTrafficFlows == {1, 2}

\* main of pausenkoordinaten on trips whose paths are decoded from strings;
\* trips are followed up to the first trip that appends a row
NextParse ==
    \/ (dict_break = <<>>
            /\ StartTrip(ParseStartDistances, ParseTrafficFlows, FALSE)
            /\ \E str \in EdgeStrings : ReadPath(str))
    \/ (in_trip /\ Len(edges_list) < Len(CurrentPath)
            /\ CheckEdge({CurrentPath[Len(edges_list) + 1]},
                         Len(CurrentPath), FALSE)
            /\ UNCHANGED pvars)
    \/ (in_trip /\ Len(edges_list) = Len(CurrentPath)
            /\ EndTrip /\ ForgetString)
    \/ (EndSingleLoop /\ UNCHANGED pvars)
    \/ (SortAndExport(FALSE) /\ UNCHANGED pvars)

SpecParse == Init /\ [][NextParse]_vars

\* --------------------------------------------------- the generator
\* np.random is one generator for the whole process: the values it returns
\* are a fixed sequence from the state it starts in, and every draw moves
\* it one value on. The sequence is modelled with a period of StreamLen.
StreamLen == 2

StreamValues == {JitterLow, JitterHigh - 1}
Streams == [1..StreamLen -> StreamValues]
StreamEdges == {1, 3}

\* the value np.random.randint returns from a generator at position pos
DrawAt(pos) == random_state[(pos % Len(random_state)) + 1]

\* np.random.randint(-50, 50) inside the check of an edge
Draw ==
    /\ jitter' = DrawAt(rng_pos)
    /\ rng_pos' = (rng_pos + 1) % Len(random_state)
    /\ UNCHANGED <<edge_str, list_trip_edges, list_trip_edges_two_driver,
                   random_state>>

InitStream ==
    /\ SegmentStart
    /\ AssignIdle
    /\ MainIdle
    /\ edge_str = <<>>
    /\ list_trip_edges = <<>>
    /\ list_trip_edges_two_driver = <<>>
    /\ random_state \in Streams
    /\ rng_pos = 0

\* main of pausenkoordinaten, every trip followed, the draws taken from
\* the generator of the process
NextStream ==
    \/ (StartTrip(RunStartDistances, RunTrafficFlows, FALSE)
            /\ UNCHANGED pvars)
    \/ (CheckEdge(StreamEdges, RunMaxPath, FALSE) /\ Draw)
    \/ (EndTrip /\ UNCHANGED pvars)
    \/ (EndSingleLoop /\ UNCHANGED pvars)
    \/ (SortAndExport(FALSE) /\ UNCHANGED pvars)

SpecStream == InitStream /\ [][NextStream]_vars

\* ------------------------------------------------- assignment properties
RECURSIVE SumSeq(_)
SumSeq(q) == IF q = <<>> THEN 0 ELSE Head(q) + SumSeq(Tail(q))

NFac == Len(ausschreibung)

\* the last iteration ran to its end on a non-empty facility list
Iterated == idx > 0 /\ NFac > 0 /\ apc # "error"

\* the facilities whose catchment contains the point of the last row
LastContaining == {k \in 1..NFac : Contains(ausschreibung[k], row.point)}

\* facility k, and only k, received the count of the last row
Received(k) ==
    results_breaks =
        [prev_results EXCEPT ![k] = prev_results[k] + row.break_count]

\* C1: with a non-empty facility list the accumulated counts sum to the
\* Break_Number sum of the rows iterated (so also when the pass returns),
\* and the last row's count went to exactly one facility.
C1_Conservation ==
    NFac > 0 =>
        /\ SumSeq(results_breaks) = sum_breaks_in
        /\ Iterated => Cardinality({k \in 1..NFac : Received(k)}) = 1

C1_Witness ==
    /\ apc = "returned"
    /\ idx = MaxEvents
    /\ NFac > 1
    /\ branches_used = {"nearest", "single", "multiple"}
    /\ SumSeq(results_breaks) = sum_breaks_in
    /\ \A k \in 1..NFac : results_breaks[k] > 0

C3_ContainmentPriority ==
    (Iterated /\ Cardinality(LastContaining) = 1) =>
        \A k \in LastContaining : Received(k)

\* the only containing facility receives although it holds more than another
C3_Witness ==
    /\ Iterated
    /\ Cardinality(LastContaining) = 1
    /\ \E k \in LastContaining, m \in 1..NFac :
          /\ Received(k)
          /\ prev_results[k] > prev_results[m]

\* the distance of the last row's point to catchment k
LastDistance(k) ==
    LET d == Abs(row.point - ausschreibung[k])
    IN  IF d <= BUFFER_RADIUS THEN 0 ELSE d - BUFFER_RADIUS

\* C4: when no catchment contains the point, the count goes to the
\* facility at minimum distance, the lowest index on equal distances,
\* whatever the accumulated counts; it is in results_breaks afterwards.
C4_NearestFallback ==
    (Iterated /\ LastContaining = {}) =>
        \E k \in 1..NFac :
            /\ Received(k)
            /\ \A m \in 1..NFac : LastDistance(k) <= LastDistance(m)
            /\ \A m \in 1..NFac :
                  m < k => LastDistance(m) > LastDistance(k)

\* two facilities at the same minimum distance: the first receives the
\* count although it already holds more than the second
C4_Witness ==
    /\ Iterated
    /\ LastContaining = {}
    /\ NFac > 1
    /\ LastDistance(1) = LastDistance(2)
    /\ Received(1)
    /\ prev_results[1] > prev_results[2]

\* ----------------------------------------------- segmentation properties
SameTrip(a, b) == a.Driver = b.Driver /\ a.Trip_ID = b.Trip_ID

\* the position of row i among the rows of its trip, counted from 1
NrInTrip(rows, i) ==
    Cardinality({m \in 1..i : SameTrip(rows[m], rows[i])})

\* the number of rows the trip being processed has appended
CurrentRows ==
    Cardinality({m \in DOMAIN dict_break :
                    /\ dict_break[m].Driver = Driver
                    /\ dict_break[m].Trip_ID = index})

TypesOf(rows) == [m \in DOMAIN rows |-> rows[m].Break_Type]

\* C5: the k-th break of a single-driver trip is short when k is odd and
\* long when k is even.
C5_SingleAlternation ==
    \A i \in DOMAIN dict_break :
        dict_break[i].Driver = 1 =>
            dict_break[i].Break_Type =
                (IF NrInTrip(dict_break, i) % 2 = 1 THEN "short" ELSE "long")

C5_Witness ==
    /\ Len(dict_break) = 5
    /\ \A i \in DOMAIN dict_break : dict_break[i].Driver = 1
    /\ TypesOf(dict_break) = <<"short", "long", "short", "long", "short">>

C7_LongAfterTwoShort ==
    \A i \in DOMAIN dict_break :
        dict_break[i].Driver = 2 =>
            dict_break[i].Break_Type =
                (IF NrInTrip(dict_break, i) % 3 = 0 THEN "long" ELSE "short")

\* a trip starts with travel_distance at its distance to the E road
C8_StartsAtEntry ==
    (in_trip /\ edges_list = <<>>) => travel_distance = distance_origin_road

\* one check: the edge length is added, a row is appended exactly when the
\* sum is strictly greater than threshold + jitter, travel_distance is then
\* 0 and otherwise the sum
C8_Step ==
    (in_trip /\ edges_list' # edges_list /\ phase' # "error") =>
        LET e == edges_list'[Len(edges_list')]
            t == travel_distance + dict_edge_length[e]
        IN  IF t > DISTANCE_THRESHOLD + jitter'
            THEN /\ travel_distance' = 0
                 /\ Len(dict_break') = Len(dict_break) + 1
                 /\ SubSeq(dict_break', 1, Len(dict_break)) = dict_break
                 /\ dict_break'[Len(dict_break')].Edge = e
            ELSE /\ travel_distance' = t
                 /\ dict_break' = dict_break

\* three edges of 200 km from distance 0 with every jitter 0, one driver
ScenarioTrip ==
    /\ phase = "single"
    /\ index >= 0
    /\ distance_origin_road = 0
    /\ jitter_zero
    /\ Len(edges_list) = 3
    /\ \A i \in 1..3 : /\ edges_list[i] \in KnownEdges
                       /\ dict_edge_length[edges_list[i]] = 200

C8_Scenario ==
    ScenarioTrip =>
        dict_break = <<BreakRow(1, index, 1, "short", edges_list[2],
                                trip_traffic)>>

\* C8: travel_distance starts at the entry distance; each edge adds its
\* length and a break is emitted iff the sum is strictly greater than
\* threshold + jitter, resetting travel_distance to 0; the trip of edges
\* [200, 200, 200] with jitter 0 from distance 0 yields one short break at
\* the end of its second edge.
C8_ThresholdRule ==
    /\ [](C8_StartsAtEntry /\ C8_Scenario)
    /\ [][C8_Step]_vars

C8_Witness ==
    /\ ScenarioTrip
    /\ ~in_trip
    /\ edges_list = <<1, 2, 1>>
    /\ Len(dict_break) = 1
    /\ dict_break[1].Node_B = dict_edge_node_b[2]
    /\ dict_break[1].Break_Type = "short"
    /\ travel_distance = 200

\* C9: the rows of a trip carry Break_Nr 1, 2, 3, ... in the order they are
\* appended, and breaks is the number of rows the trip has appended so far
\* (0 at its start, changed only by an emission).
C9_SequenceIndex ==
    /\ \A i \in DOMAIN dict_break :
          dict_break[i].Break_Nr = NrInTrip(dict_break, i)
    /\ (phase \in {"single", "double"} /\ index >= 0) => breaks = CurrentRows

\* a single-driver trip with two breaks, then a two-driver trip whose
\* first break is numbered 1 again
C9_Witness ==
    /\ Len(dict_break) = 3
    /\ dict_break[1].Driver = 1 /\ dict_break[1].Break_Nr = 1
    /\ dict_break[2].Driver = 1 /\ dict_break[2].Break_Nr = 2
    /\ dict_break[3].Driver = 2 /\ dict_break[3].Break_Nr = 1
    /\ breaks = 1

\* C10: two executions on the same trips and dictionaries export the same
\* rows.
C10_Determinism ==
    phase = "done" => df_breaks = rerun.df_breaks

\* C11: an edge id missing from the dictionaries stops only its trip: the
\* run goes on with the remaining trips and reaches the export, so it never
\* stops before the export.
C11_UnknownEdgeIsolation == phase = "done" \/ ENABLED NextRun

\* C12: with an empty facility list the pass never returns a Series: it
\* ends in an error, whatever rows it is given, none included.
C12_EmptyFacilityList == (NFac = 0 /\ apc # "loop") => apc = "error"

\* ------------------------------------------------------ path properties
\* the elements of the stripped string are not all integers: it is empty,
\* holds a character that is neither a digit nor a comma, or has a comma
\* with no digit on one side
Malformed(str) ==
    LET t == Strip(str)
    IN  \/ t = <<>>
        \/ \E i \in 1..Len(t) : t[i] \notin (DOMAIN DigitValue) \cup {","}
        \/ t[1] = ","
        \/ t[Len(t)] = ","
        \/ \E i \in 1..(Len(t) - 1) : t[i] = "," /\ t[i + 1] = ","

Commas(str) == Cardinality({i \in 1..Len(str) : str[i] = ","})

\* C13: an edge-path string with an element that is not an integer ('[]'
\* included) decodes to the empty sequence as a whole, its trip appends no
\* row and raises no error; a string of integers keeps all its elements.
C13_MalformedPath ==
    /\ in_trip =>
         IF Malformed(edge_str)
         THEN /\ CurrentPath = <<>>
              /\ CurrentRows = 0
         ELSE Len(CurrentPath) = Commas(Strip(edge_str)) + 1
    /\ phase = "error" => ~Malformed(edge_str)
    /\ (in_trip /\ edge_str = <<"[", "]">>) => CurrentPath = <<>>

\* the two-driver trip of "3,x" is at the end of its empty path with no
\* row, after a single-driver trip whose string was malformed too
C13_Witness ==
    /\ phase = "double" /\ in_trip
    /\ edge_str = <<"3", ",", "x">>
    /\ CurrentPath = <<>>
    /\ list_trip_edges = << <<>> >>
    /\ dict_break = <<>>
    /\ ENABLED EndTrip

\* ------------------------------------------------- properties of the passes
\* the rows of the file of one type, in file order
RowsOfType(type) ==
    SelectSeq(df_breaks_loaded, LAMBDA r : r.Break_Type = type)

\* the counters after the rows are assigned one after the other
RECURSIVE AssignAll(_, _, _)
AssignAll(centres, counters, rows) ==
    IF rows = <<>> THEN counters
    ELSE AssignAll(centres,
                   AddBreaks(counters,
                             Target(centres, counters, Head(rows).point),
                             Head(rows).break_count),
                   Tail(rows))

\* what a pass over the rows yields when it runs on its own
Alone(rows) == AssignAll(ausschreibung, ZeroResults(ausschreibung), rows)

\* C14: each pass starts with every counter at 0; the Series of the short
\* pass is what the short rows alone yield and stays so while the long pass
\* runs; the Series of the long pass is what the long rows alone yield,
\* whatever the short pass did; the final frame holds both.
C14_IndependentPasses ==
    /\ (apc = "loop" /\ idx = 0) => results_breaks = ZeroResults(ausschreibung)
    /\ (NFac > 0 /\ break_pass # "short") =>
            short_breaks_series = Alone(RowsOfType("short"))
    /\ (NFac > 0 /\ break_pass = "long" /\ apc = "loop") =>
            results_breaks = Alone(SubSeq(RowsOfType("long"), 1, idx))
    /\ (NFac > 0 /\ break_pass = "done") =>
            /\ long_breaks_series = Alone(RowsOfType("long"))
            /\ DOMAIN SumColumn = 1..NFac

\* both passes have returned; a short and a long row lie in the same two
\* catchments and each pass gave its row to the first facility
C14_Witness ==
    /\ break_pass = "done"
    /\ ausschreibung = <<0, 1>>
    /\ Len(df_breaks_loaded) = 2
    /\ df_breaks_loaded[1].Break_Type = "short"
    /\ df_breaks_loaded[2].Break_Type = "long"
    /\ df_breaks_loaded[1].point = 0 /\ df_breaks_loaded[2].point = 0
    /\ short_breaks_series[1] > 0
    /\ long_breaks_series[1] > 0

\* ------------------------------------------------- properties of the trips
\* the rows the trip being processed has appended
RowsOfCurrentTrip ==
    SelectSeq(dict_break,
              LAMBDA r : r.Driver = Driver /\ r.Trip_ID = index)

\* the execution of a trip over path whose k-th check gets the k-th value
\* of the generator in the state the process starts it in
RECURSIVE TripFirst(_, _, _, _, _)
TripFirst(driver, trip, origin, traffic, path) ==
    IF path = <<>>
    THEN [travel_distance |-> origin, breaks |-> 0, breaks_reset |-> 0,
          dict_break |-> <<>>, df_breaks |-> <<>>]
    ELSE EdgeStep(TripFirst(driver, trip, origin, traffic,
                            SubSeq(path, 1, Len(path) - 1)),
                  driver, trip, traffic, path[Len(path)],
                  DrawAt(Len(path) - 1))

\* C15: the rows of a trip depend on its record and on no other trip: they
\* are the rows the trip yields when it is the first one processed, from
\* the same generator.
C15_TripIndependence ==
    (phase \in {"single", "double"} /\ index >= 0) =>
        RowsOfCurrentTrip =
            TripFirst(Driver, index, distance_origin_road, trip_traffic,
                      edges_list).dict_break

\* the rows of the running pass iterated so far
Iterated_rows == SubSeq(PassRows, 1, idx)

\* every ordering of the rows
Orderings(rows) ==
    {[i \in DOMAIN rows |-> rows[p[i]]] :
        p \in {f \in [DOMAIN rows -> DOMAIN rows] :
                  \A a, b \in DOMAIN rows : f[a] = f[b] => a = b}}

\* C16: the counters of a pass are a function of the rows in the order they
\* were iterated; whatever the order of the same rows, the total over all
\* facilities is the same.
C16_OrderSignificance ==
    (NFac > 0 /\ break_pass \in BreakTypes /\ apc = "loop") =>
        /\ results_breaks = Alone(Iterated_rows)
        /\ \A q \in Orderings(Iterated_rows) :
               SumSeq(Alone(q)) = SumSeq(results_breaks)

\* two orderings of the rows that were iterated yield different counters
C16_Witness ==
    /\ NFac > 0 /\ break_pass \in BreakTypes /\ apc = "loop"
    /\ idx = Len(PassRows)
    /\ \E q \in Orderings(Iterated_rows) : Alone(q) # results_breaks

\* the values of the column Netzanschlussleistung
Capacities == {1, 2}

\* C17: in the multi-containment branch the circle that receives the count
\* has the minimal ratio of accumulated breaks to Netzanschlussleistung
\* among the circles that contain the point, for every column of capacities.
C17_DocstringRatio ==
    (Iterated /\ Cardinality(LastContaining) >= 2) =>
        \A list_anschlussleistung \in [1..NFac -> Capacities] :
            \E k \in LastContaining :
                /\ Received(k)
                /\ \A m \in LastContaining :
                      prev_results[k] * list_anschlussleistung[m]
                          <= prev_results[m] * list_anschlussleistung[k]

\* C18: in a pass every counter is 0 before the first row; an iteration
\* lowers no counter, and it raises exactly one counter, by the count of
\* its row (the counts are not negative).
C18_MonotoneCounters ==
    /\ idx = 0 => \A k \in 1..NFac : results_breaks[k] = 0
    /\ Iterated =>
          /\ row.break_count >= 0
          /\ \A k \in 1..NFac : results_breaks[k] >= prev_results[k]
          /\ \E k \in 1..NFac :
                /\ results_breaks[k] - prev_results[k] = row.break_count
                /\ \A m \in 1..NFac \ {k} :
                      results_breaks[m] = prev_results[m]

\* the third row has raised a counter that an earlier row had raised
C18_Witness ==
    /\ Iterated
    /\ idx = MaxEvents
    /\ \E k \in 1..NFac :
          /\ prev_results[k] > 0
          /\ results_breaks[k] > prev_results[k]
          /\ \E m \in 1..NFac : m # k /\ results_breaks[m] > 0

\* ------------------------------------------------ properties of the jitter
\* a step that checks an edge of the dictionaries
EdgeChecked ==
    /\ in_trip /\ in_trip'
    /\ edges_list' # edges_list

\* the accumulated distance that step compares with the threshold
Traveled == travel_distance + dict_edge_length[edges_list'[Len(edges_list')]]

Emitted == Len(dict_break') = Len(dict_break) + 1

C19_Step ==
    EdgeChecked =>
        /\ jitter' \in JitterLow..(JitterHigh - 1)
        /\ Emitted <=> Traveled > DISTANCE_THRESHOLD + jitter'
        /\ Traveled <= DISTANCE_THRESHOLD - 50 => ~Emitted
        /\ Traveled > DISTANCE_THRESHOLD + 49 => Emitted

\* C19: every check of an edge has its own draw from [-50, 50): a check at
\* no more than T - 50 appends no row, a check above T + 49 appends one, and
\* once the first edge of a trip is checked the accumulated distance is at
\* most T + 49.
C19_JitterRange ==
    /\ []((in_trip /\ Len(edges_list) >= 1) =>
             travel_distance <= DISTANCE_THRESHOLD + 49)
    /\ [][C19_Step]_vars

\* two checks of one trip saw different draws: four edges of 200 km from
\* distance 0; at 400 km the draw was below 40 and a row was appended, at
\* 400 km again the draw is 49 and none is
C19_Witness ==
    /\ in_trip
    /\ distance_origin_road = 0
    /\ Len(edges_list) = 4
    /\ \A i \in 1..4 : /\ edges_list[i] \in KnownEdges
                       /\ dict_edge_length[edges_list[i]] = 200
    /\ CurrentRows = 1
    /\ ~jitter_zero
    /\ jitter = JitterHigh - 1
    /\ travel_distance = 400
    /\ dict_break[1].Edge = edges_list[2]

\* ------------------------------------------------ properties of the events
\* a step appends rows only as the check of the edge it adds to the path:
\* one row, at Node_B of that edge, with the traffic flow of the trip
C20_Step ==
    dict_break' # dict_break =>
        /\ in_trip
        /\ Len(edges_list') = Len(edges_list) + 1
        /\ Len(dict_break') = Len(dict_break) + 1
        /\ SubSeq(dict_break', 1, Len(dict_break)) = dict_break
        /\ LET e == edges_list'[Len(edges_list')]
               r == dict_break'[Len(dict_break')]
           IN  /\ r.Edge = e
               /\ r.Node_B = dict_edge_node_b[e]
               /\ r.Break_Number = trip_traffic
               /\ r.Driver = Driver /\ r.Trip_ID = index

\* C20: a trip has at most as many rows as edges checked, also when its
\* entry distance or one edge exceeds the threshold several times; a row is
\* appended only by the check of an edge, at Node_B of that edge and with
\* the traffic flow of the trip; the end of the path appends nothing.
C20_NoForcedEvents ==
    /\ []((phase \in {"single", "double"} /\ index >= 0) =>
             CurrentRows <= Len(edges_list))
    /\ [][C20_Step]_vars

\* entry distance 500 and the path "5,1": one row at the end of the edge of
\* 1500 km, none for the 200 km left over when the path has ended
C20_Witness ==
    /\ phase = "single" /\ ~in_trip /\ index = 0
    /\ distance_origin_road = 500
    /\ trip_traffic = 2
    /\ edges_list = <<LongEdge, 1>>
    /\ travel_distance = 200
    /\ Len(dict_break) = 1
    /\ dict_break[1].Node_B = dict_edge_node_b[LongEdge]
    /\ dict_break[1].Break_Number = 2

\* C21: in the exported frame no two rows carry the same pair of Trip_ID and
\* Break_Nr, and the rows of a trip lie next to each other in the order they
\* were appended.
C21_EventIdentity ==
    phase = "done" =>
        /\ \A i, j \in DOMAIN df_breaks :
              (/\ df_breaks[i].Trip_ID = df_breaks[j].Trip_ID
               /\ df_breaks[i].Break_Nr = df_breaks[j].Break_Nr) => i = j
        /\ \A i, j \in DOMAIN df_breaks :
              (i < j /\ SameTrip(df_breaks[i], df_breaks[j])) =>
                  /\ df_breaks[i].Break_Nr < df_breaks[j].Break_Nr
                  /\ \A m \in i..j : SameTrip(df_breaks[m], df_breaks[i])

====
